---- MODULE Spec2Model ----
(***************************************************************************)
(* go-sarah-discord: the Discord adapter of the go-sarah bot framework.    *)
(*                                                                         *)
(* Strings are sequences of one-character strings, so that                *)
(* strings.TrimSpace and fmt.Sprintf are computed and not assumed.        *)
(* A Go pointer or error that may be nil is a sequence of length <= 1:    *)
(* <<>> is nil, <<v>> is a present value v.                                *)
(***************************************************************************)
EXTENDS Integers, Sequences, FiniteSets, TLC

(***************************************************************************)
(* Bounds of the model.                                                    *)
(***************************************************************************)
MaxRuns == 2      \* Run invocations on the one adapter
MaxEvents == 2    \* inbound events handed to the message handler
MaxSends == 2     \* SendMessage invocations

Nil == <<>>
Some(v) == <<v>>

(***************************************************************************)
(* String literals.                                                        *)
(***************************************************************************)
DotHelp == <<".", "h", "e", "l", "p">>
DotAbort == <<".", "a", "b", "o", "r", "t">>
Hello == <<"h", "i">>

\* The whitespace strings.TrimSpace removes that the model's texts contain.
IsSpace(c) == c \in {" ", "\t", "\n", "\r"}

RECURSIVE TrimLeft(_)
TrimLeft(s) ==
    IF s = <<>> THEN s
    ELSE IF IsSpace(Head(s)) THEN TrimLeft(Tail(s)) ELSE s

RECURSIVE TrimRight(_)
TrimRight(s) ==
    IF s = <<>> THEN s
    ELSE IF IsSpace(s[Len(s)]) THEN TrimRight(SubSeq(s, 1, Len(s) - 1)) ELSE s

\* strings.TrimSpace(input.Message())
TrimSpace(s) == TrimRight(TrimLeft(s))

(***************************************************************************)
(* Configuration.                                                          *)
(***************************************************************************)
\* discordgo.IntentsGuildMessages, IntentsDirectMessages and
\* IntentsMessageContent: 1 << 9, 1 << 12 and 1 << 15
IntentsGuildMessages == 512
IntentsDirectMessages == 4096
IntentsMessageContent == 32768

\* a | b on non-negative integers
RECURSIVE BitOr(_, _)
BitOr(a, b) ==
    IF a = 0 THEN b
    ELSE IF b = 0 THEN a
    ELSE (IF a % 2 = 1 \/ b % 2 = 1 THEN 1 ELSE 0)
         + 2 * BitOr(a \div 2, b \div 2)

\* IntentsGuildMessages | IntentsDirectMessages | IntentsMessageContent
DefaultIntents ==
    BitOr(BitOr(IntentsGuildMessages, IntentsDirectMessages),
          IntentsMessageContent)

HelpCommands == {<<>>, DotHelp}
AbortCommands == {<<>>, DotAbort, DotHelp}

Configs ==
    [Token : {<<"t", "k">>}, HelpCommand : HelpCommands,
     AbortCommand : AbortCommands, Intents : {DefaultIntents}]

(***************************************************************************)
(* Inbound events (discordgo.MessageCreate) and the session handed to the  *)
(* handler with them.                                                      *)
(***************************************************************************)
BotID == <<"b", "o", "t">>
UserID == <<"u", "1">>
ChannelIDs == {<<"c", "1">>, <<"c", "2">>}
Authors == {Nil, Some([ID |-> BotID]), Some([ID |-> UserID])}

Contents ==
    { <<>>,
      <<" ">>,
      DotHelp,
      <<" ", " ">> \o DotHelp \o <<"\n">>,
      DotHelp \o <<" ", "m", "e">>,
      DotAbort,
      <<"\t">> \o DotAbort \o <<" ">>,
      Hello,
      <<" ">> \o Hello \o <<" ">> }

Timestamps == {1, 2}

Events ==
    [ChannelID : ChannelIDs, Content : Contents, Author : Authors,
     Timestamp : Timestamps]

\* *discordgo.Session as the handler sees it: State may be nil, and
\* State.User may be nil until the gateway has identified the bot.
Sessions ==
    { [State |-> Nil],
      [State |-> Some([User |-> Nil])],
      [State |-> Some([User |-> Some([ID |-> BotID])])] }

\* What the enqueue callback returns: nil or an error.
EnqueueRets == {Nil, Some(<<"f", "u", "l", "l">>)}

VARIABLES
    config,         \* Adapter.config
    pc,             \* position of Run
    run,            \* number of Run invocations so far
    ctxDone,        \* the context of the current Run invocation is canceled
    handlers,       \* handlers registered on the session, by Run invocation
    calls,          \* calls of AddHandler, Open and Close on the session, and
                    \* what Open and Close returned, in order
    notified,       \* errors passed to notifyErr
    last,           \* the last handleMessage invocation and what it enqueued
    events,         \* number of handleMessage invocations so far
    enqueueFails,   \* number of enqueue calls that returned an error
    lastSend,       \* the last SendMessage invocation and what it sent
    sends,          \* number of SendMessage invocations so far
    sendFails,      \* number of session send calls that returned an error
    conf,           \* the Config its owner is preparing, from NewConfig on
    confEdited,     \* a field of conf was assigned since NewConfig returned it
    lastNew,        \* the last NewAdapter invocation and what it returned
    lastResp,       \* the last NewResponse invocation and what it returned
    lastInput,      \* the last MessageToInput invocation and what it returned
    session,        \* the session the adapter holds (a.session)
    threads,        \* the handleMessage invocations under way, by goroutine
    queue           \* the values handed to enqueueInput, in the order of the calls

runVars == <<pc, run, ctxDone, handlers, calls, notified>>
handleVars == <<last, events, enqueueFails>>
sendVars == <<lastSend, sends, sendFails>>
callVars == <<conf, confEdited, lastNew, lastResp, lastInput>>
concVars == <<session, threads, queue>>
vars == <<config, runVars, handleVars, sendVars, callVars, concVars>>

(***************************************************************************)
(* Input translation.                                                      *)
(***************************************************************************)
\* errors.New("message has no author")
ErrNoAuthor ==
    <<"m", "e", "s", "s", "a", "g", "e", " ", "h", "a", "s", " ", "n", "o",
      " ", "a", "u", "t", "h", "o", "r">>

\* A sender key with the author in front of the channel.
SenderKeyOf_Reversed(channelID, authorID) == authorID \o <<"_">> \o channelID

\* fmt.Sprintf("%s_%s", m.ChannelID, m.Author.ID)
SenderKeyOf(channelID, authorID) == channelID \o <<"_">> \o authorID

\* ChannelID(m.ChannelID): the channel as a sarah.OutputDestination
ChannelID(id) == [type |-> "ChannelID", id |-> id]

\* MessageToInput that stores the trimmed text.
MessageToInput_Trimmed(m) ==
    IF m.Author = Nil
    THEN [input |-> Nil, err |-> Some(ErrNoAuthor)]
    ELSE [input |-> Some([Event |-> m,
                          senderKey |-> SenderKeyOf(m.ChannelID, m.Author[1].ID),
                          text |-> TrimSpace(m.Content),
                          sentAt |-> m.Timestamp,
                          channelID |-> ChannelID(m.ChannelID)]),
          err |-> Nil]

\* MessageToInput with a sender key that depends on the time of the event.
MessageToInput_KeyedByTime(m) ==
    IF m.Author = Nil
    THEN [input |-> Nil, err |-> Some(ErrNoAuthor)]
    ELSE [input |-> Some([Event |-> m,
                          senderKey |->
                              SenderKeyOf(m.ChannelID, m.Author[1].ID)
                                  \o (IF m.Timestamp = 1
                                      THEN <<>> ELSE <<"_", "2">>),
                          text |-> m.Content,
                          sentAt |-> m.Timestamp,
                          channelID |-> ChannelID(m.ChannelID)]),
          err |-> Nil]

MessageToInput(m) ==
    IF m.Author = Nil
    THEN [input |-> Nil, err |-> Some(ErrNoAuthor)]
    ELSE [input |-> Some([Event |-> m,
                          senderKey |-> SenderKeyOf(m.ChannelID, m.Author[1].ID),
                          text |-> m.Content,
                          sentAt |-> m.Timestamp,
                          channelID |-> ChannelID(m.ChannelID)]),
          err |-> Nil]

\* The sarah.Input handed to the enqueue callback: its dynamic type and the
\* *Input it is or wraps.  sarah.NewHelpInput and sarah.NewAbortInput keep
\* the input as OriginalInput and copy its sender key, message, time and
\* destination.
NewHelpInput(input) == [type |-> "*sarah.HelpInput", input |-> input]
NewAbortInput(input) == [type |-> "*sarah.AbortInput", input |-> input]
AsInput(input) == [type |-> "*discord.Input", input |-> input]

\* (*Input).SenderKey, Message, SentAt, ReplyTo
SenderKey(v) == v.input.senderKey
Message(v) == v.input.text
SentAt(v) == v.input.sentAt
ReplyTo(v) == v.input.channelID

(***************************************************************************)
(* Message handling.                                                       *)
(***************************************************************************)
\* A self-filter that drops the message when the identity is unknown.
IsOwnMessage_Strict(s, m) ==
    \/ s.State = Nil
    \/ s.State[1].User = Nil
    \/ m.Author[1].ID = s.State[1].User[1].ID

\* s.State != nil && s.State.User != nil && m.Author.ID == s.State.User.ID
IsOwnMessage(s, m) ==
    /\ s.State # Nil
    /\ s.State[1].User # Nil
    /\ m.Author[1].ID = s.State[1].User[1].ID

\* strings.HasPrefix(str, prefix)
HasPrefix(str, prefix) ==
    Len(prefix) <= Len(str) /\ SubSeq(str, 1, Len(prefix)) = prefix

\* A help test that accepts every text starting with the trigger.
IsHelp_Prefix(cfg, trimmed) ==
    cfg.HelpCommand # <<>> /\ HasPrefix(trimmed, cfg.HelpCommand)

\* A help test that does not skip the empty trigger.
IsHelp_NoEmptyCheck(cfg, trimmed) == trimmed = cfg.HelpCommand

\* a.config.HelpCommand != "" && trimmed == a.config.HelpCommand
IsHelp(cfg, trimmed) == cfg.HelpCommand # <<>> /\ trimmed = cfg.HelpCommand

\* An abort test that compares with the help trigger.
IsAbort_HelpCommand(cfg, trimmed) ==
    cfg.AbortCommand # <<>> /\ trimmed = cfg.HelpCommand

\* a.config.AbortCommand != "" && trimmed == a.config.AbortCommand
IsAbort(cfg, trimmed) == cfg.AbortCommand # <<>> /\ trimmed = cfg.AbortCommand

\* The value handleMessage hands to enqueueInput for a translated input.
Wrap(cfg, input) ==
    LET trimmed == TrimSpace(input.text)
    IN  IF IsHelp(cfg, trimmed) THEN NewHelpInput(input)
        ELSE IF IsAbort(cfg, trimmed) THEN NewAbortInput(input)
        ELSE AsInput(input)

\* A handler that goes on after MessageToInput failed.
HandleCalls_NoAuthorCheck(cfg, s, m, cb, ret) ==
    LET r == MessageToInput(m)
    IN  IF r.err # Nil
        THEN <<[cb |-> cb,
                arg |-> AsInput([Event |-> m, senderKey |-> <<>>,
                                 text |-> m.Content, sentAt |-> m.Timestamp,
                                 channelID |-> ChannelID(m.ChannelID)]),
                ret |-> ret]>>
        ELSE IF IsOwnMessage(s, m) THEN <<>>
        ELSE <<[cb |-> cb, arg |-> Wrap(cfg, r.input[1]), ret |-> ret]>>

\* A handler that enqueues once more when enqueueInput failed.
HandleCalls_Retry(cfg, s, m, cb, ret) ==
    LET r == MessageToInput(m)
    IN  IF r.err # Nil THEN <<>>
        ELSE IF IsOwnMessage(s, m) THEN <<>>
        ELSE IF ret # Nil
        THEN <<[cb |-> cb, arg |-> Wrap(cfg, r.input[1]), ret |-> ret],
               [cb |-> cb, arg |-> Wrap(cfg, r.input[1]), ret |-> Nil]>>
        ELSE <<[cb |-> cb, arg |-> Wrap(cfg, r.input[1]), ret |-> ret]>>

\* The calls one handleMessage invocation makes on its enqueue callback cb,
\* which returns ret.
HandleCalls(cfg, s, m, cb, ret) ==
    LET r == MessageToInput(m)
    IN  IF r.err # Nil THEN <<>>
        ELSE IF IsOwnMessage(s, m) THEN <<>>
        ELSE <<[cb |-> cb, arg |-> Wrap(cfg, r.input[1]), ret |-> ret]>>

\* The session hands the event m to each of the handlers cbs in turn.
RECURSIVE DispatchCalls(_, _, _, _, _)
DispatchCalls(cfg, s, m, cbs, rets) ==
    IF cbs = <<>> THEN <<>>
    ELSE HandleCalls(cfg, s, m, Head(cbs), Head(rets))
         \o DispatchCalls(cfg, s, m, Tail(cbs), Tail(rets))

Failures(cs) == Cardinality({i \in DOMAIN cs : cs[i].ret # Nil})

Dispatch(s, m, cbs, rets) ==
    /\ events < MaxEvents
    /\ last' = Some([s |-> s, m |-> m, cbs |-> cbs,
                     calls |-> DispatchCalls(config, s, m, cbs, rets)])
    /\ events' = events + 1
    /\ enqueueFails' =
           enqueueFails + Failures(DispatchCalls(config, s, m, cbs, rets))
    /\ UNCHANGED <<config, runVars, sendVars, callVars, concVars>>

\* a.handleMessage(s, m, enqueueInput) called directly, with a callback
\* that belongs to no Run invocation.
handleMessage(s, m, ret) == Dispatch(s, m, <<0>>, <<ret>>)

\* The session delivers m to every handler Run has registered on it.
Deliver(s, m) ==
    /\ handlers # <<>>
    /\ \E rets \in [1..Len(handlers) -> EnqueueRets] :
           Dispatch(s, m, handlers, rets)

(***************************************************************************)
(* handleMessage step by step, for invocations that run concurrently.      *)
(***************************************************************************)
MaxInvocations == 2

\* The events and the session of the concurrent invocations: a help
\* trigger and a padded text from a user, an abort trigger from the bot
\* itself, and an event without author.
ConcEvents ==
    { [ChannelID |-> <<"c", "1">>, Content |-> DotHelp,
       Author |-> Some([ID |-> UserID]), Timestamp |-> 1],
      [ChannelID |-> <<"c", "2">>, Content |-> <<" ">> \o DotAbort \o <<"\n">>,
       Author |-> Some([ID |-> UserID]), Timestamp |-> 2],
      [ChannelID |-> <<"c", "1">>, Content |-> DotAbort,
       Author |-> Some([ID |-> BotID]), Timestamp |-> 1],
      [ChannelID |-> <<"c", "1">>, Content |-> Hello,
       Author |-> Nil, Timestamp |-> 2] }

ConcSessions == {[State |-> Some([User |-> Some([ID |-> BotID])])]}

\* The locals of a handleMessage invocation.
Invocation(s, m) ==
    [s |-> s, m |-> m, at |-> "translate", input |-> Nil, out |-> Nil]

\* The session starts a.handleMessage(s, m, enqueueInput) in a goroutine of
\* its own.
HStart(s, m) ==
    /\ Len(threads) < MaxInvocations
    /\ threads' = Append(threads, Invocation(s, m))
    /\ UNCHANGED <<config, runVars, handleVars, sendVars, callVars, session,
                   queue>>

\* input, err := MessageToInput(m); if err != nil { return }
HTranslate(t) ==
    /\ threads[t].at = "translate"
    /\ LET r == MessageToInput(threads[t].m)
       IN  threads' = [threads EXCEPT
                          ![t].input = r.input,
                          ![t].at = IF r.err # Nil THEN "done" ELSE "filter"]
    /\ UNCHANGED <<config, runVars, handleVars, sendVars, callVars, session,
                   queue>>

\* if s.State != nil && ... m.Author.ID == s.State.User.ID { return }
HFilter(t) ==
    /\ threads[t].at = "filter"
    /\ threads' = [threads EXCEPT
                      ![t].at = IF IsOwnMessage(threads[t].s, threads[t].m)
                                THEN "done"
                                ELSE "classify"]
    /\ UNCHANGED <<config, runVars, handleVars, sendVars, callVars, session,
                   queue>>

\* A handler that keeps the value to enqueue in a field of the adapter,
\* which every invocation about to enqueue shares.
HClassify_Shared(t) ==
    /\ threads[t].at = "classify"
    /\ threads' =
           [u \in DOMAIN threads |->
               IF u = t \/ threads[u].at = "enqueue"
               THEN [threads[u] EXCEPT
                        !.out = Some(Wrap(config, threads[t].input[1])),
                        !.at = "enqueue"]
               ELSE threads[u]]
    /\ UNCHANGED <<config, runVars, handleVars, sendVars, callVars, session,
                   queue>>

\* trimmed := strings.TrimSpace(input.Message()) and the tests of the two
\* triggers, which read a.config: the value the invocation will enqueue.
HClassify(t) ==
    /\ threads[t].at = "classify"
    /\ threads' = [threads EXCEPT
                      ![t].out = Some(Wrap(config, threads[t].input[1])),
                      ![t].at = "enqueue"]
    /\ UNCHANGED <<config, runVars, handleVars, sendVars, callVars, session,
                   queue>>

\* enqueueErr = enqueueInput(...), which returns ret; an error is logged.
HEnqueue(t, ret) ==
    /\ threads[t].at = "enqueue"
    /\ queue' = Append(queue, [t |-> t, arg |-> threads[t].out[1],
                               ret |-> ret])
    /\ threads' = [threads EXCEPT ![t].at = "done"]
    /\ UNCHANGED <<config, runVars, handleVars, sendVars, callVars, session>>

(***************************************************************************)
(* Run.                                                                    *)
(***************************************************************************)
\* What Session.Open and Session.Close return: nil or an error.
OpenErrs == {<<"r", "e", "f", "u", "s", "e", "d">>, <<"d", "n", "s">>}
CloseErrs == {<<"c", "l", "o", "s", "e", "d">>}

OpenFailedPrefix ==
    <<"f", "a", "i", "l", "e", "d", " ", "t", "o", " ", "o", "p", "e", "n", " ",
      "D", "i", "s", "c", "o", "r", "d", " ", "s", "e", "s", "s", "i", "o", "n",
      ":", " ">>

\* sarah.NewBotNonContinuableError(
\*     fmt.Sprintf("failed to open Discord session: %s", err.Error()))
OpenFailure(err) ==
    [type |-> "*sarah.BotNonContinuableError", err |-> OpenFailedPrefix \o err]

\* Run invocation run calls op on the session; op returns err to it.
SessionCall(op) == [op |-> op, run |-> run, ev |-> "call", err |-> Nil]
SessionReturn(op, err) == [op |-> op, run |-> run, ev |-> "return", err |-> err]

\* The framework calls a.Run(ctx, enqueueInput, notifyErr); ctx may already
\* be canceled.
RunStart ==
    /\ pc \in {"idle", "returned"}
    /\ run < MaxRuns
    /\ pc' = "start"
    /\ run' = run + 1
    /\ ctxDone' \in BOOLEAN
    /\ UNCHANGED <<config, handlers, calls, notified, handleVars, sendVars, callVars, concVars>>

\* Run that registers its handler twice.
RunAddHandler_Twice ==
    /\ pc = "start"
    /\ handlers' = handlers \o <<run, run>>
    /\ calls' = calls \o <<SessionCall("AddHandler"), SessionCall("AddHandler")>>
    /\ pc' = "registered"
    /\ UNCHANGED <<config, run, ctxDone, notified, handleVars, sendVars,
                   callVars, concVars>>

\* Run that looks at the context first and returns when it is canceled.
RunAddHandler_ChecksContext ==
    /\ pc = "start"
    /\ handlers' = IF ctxDone THEN handlers ELSE Append(handlers, run)
    /\ calls' = IF ctxDone
                THEN calls
                ELSE Append(calls, SessionCall("AddHandler"))
    /\ pc' = IF ctxDone THEN "returned" ELSE "registered"
    /\ UNCHANGED <<config, run, ctxDone, notified, handleVars, sendVars,
                   callVars, concVars>>

\* a.session.AddHandler(func(s, m) { a.handleMessage(s, m, enqueueInput) })
RunAddHandler ==
    /\ pc = "start"
    /\ handlers' = Append(handlers, run)
    /\ calls' = Append(calls, SessionCall("AddHandler"))
    /\ pc' = "registered"
    /\ UNCHANGED <<config, run, ctxDone, notified, handleVars, sendVars, callVars, concVars>>

\* err := a.session.Open(), up to the call
RunOpen ==
    /\ pc = "registered"
    /\ calls' = Append(calls, SessionCall("Open"))
    /\ pc' = "opening"
    /\ UNCHANGED <<config, run, ctxDone, handlers, notified, handleVars,
                   sendVars, callVars, concVars>>

\* Open returns nil: Run goes on to <-ctx.Done().
RunOpened ==
    /\ pc = "opening"
    /\ calls' = Append(calls, SessionReturn("Open", Nil))
    /\ pc' = "waiting"
    /\ UNCHANGED <<config, run, ctxDone, handlers, notified, handleVars,
                   sendVars, callVars, concVars>>

\* Run with a retry: after notifying, Open is called again.
RunOpenFailed_Retry(err) ==
    /\ pc = "opening"
    /\ calls' = Append(calls, SessionReturn("Open", Some(err)))
    /\ notified' = Append(notified, [run |-> run, err |-> OpenFailure(err)])
    /\ pc' = "registered"
    /\ UNCHANGED <<config, run, ctxDone, handlers, handleVars, sendVars, callVars, concVars>>

\* Run without the return after notifyErr: it goes on to wait and to close.
RunOpenFailed_NoReturn(err) ==
    /\ pc = "opening"
    /\ calls' = Append(calls, SessionReturn("Open", Some(err)))
    /\ notified' = Append(notified, [run |-> run, err |-> OpenFailure(err)])
    /\ pc' = "waiting"
    /\ UNCHANGED <<config, run, ctxDone, handlers, handleVars, sendVars,
                   callVars, concVars>>

\* Open returns err: notifyErr(...) and return.
RunOpenFailed(err) ==
    /\ pc = "opening"
    /\ calls' = Append(calls, SessionReturn("Open", Some(err)))
    /\ notified' = Append(notified, [run |-> run, err |-> OpenFailure(err)])
    /\ pc' = "returned"
    /\ UNCHANGED <<config, run, ctxDone, handlers, handleVars, sendVars, callVars, concVars>>

\* The owner of ctx cancels it.
Cancel ==
    /\ pc \in {"start", "registered", "opening", "waiting"}
    /\ ~ctxDone
    /\ ctxDone' = TRUE
    /\ UNCHANGED <<config, pc, run, handlers, calls, notified, handleVars,
                   sendVars, callVars, concVars>>

\* Run that does not wait for ctx.Done() before it closes the session.
RunClose_NoWait ==
    /\ pc = "waiting"
    /\ calls' = Append(calls, SessionCall("Close"))
    /\ pc' = "closing"
    /\ UNCHANGED <<config, run, ctxDone, handlers, notified, handleVars,
                   sendVars, callVars, concVars>>

\* <-ctx.Done() is over: a.session.Close(), up to the call
RunClose ==
    /\ pc = "waiting"
    /\ ctxDone
    /\ calls' = Append(calls, SessionCall("Close"))
    /\ pc' = "closing"
    /\ UNCHANGED <<config, run, ctxDone, handlers, notified, handleVars,
                   sendVars, callVars, concVars>>

\* Run that reports a failure of Close through notifyErr.
RunClosed_Notifies(closeErr) ==
    /\ pc = "closing"
    /\ calls' = Append(calls, SessionReturn("Close", closeErr))
    /\ notified' = IF closeErr = Nil
                   THEN notified
                   ELSE Append(notified,
                               [run |-> run, err |-> OpenFailure(closeErr[1])])
    /\ pc' = "returned"
    /\ UNCHANGED <<config, run, ctxDone, handlers, handleVars, sendVars,
                   callVars, concVars>>

\* Run with a timeout of its own: it returns while Close has not returned.
RunClosed_Timeout(closeErr) ==
    /\ pc = "closing"
    /\ pc' = "returned"
    /\ UNCHANGED <<config, run, ctxDone, handlers, calls, notified,
                   handleVars, sendVars, callVars, concVars>>

\* Run that removes its handler from the session when it returns.
RunClosed_Unregisters(closeErr) ==
    /\ pc = "closing"
    /\ calls' = Append(calls, SessionReturn("Close", closeErr))
    /\ handlers' = SubSeq(handlers, 1, Len(handlers) - 1)
    /\ pc' = "returned"
    /\ UNCHANGED <<config, run, ctxDone, notified, handleVars, sendVars,
                   callVars, concVars>>

\* Close returns closeErr, which is only logged when it is not nil; Run
\* returns.
RunClosed(closeErr) ==
    /\ pc = "closing"
    /\ calls' = Append(calls, SessionReturn("Close", closeErr))
    /\ pc' = "returned"
    /\ UNCHANGED <<config, run, ctxDone, handlers, notified, handleVars,
                   sendVars, callVars, concVars>>

(***************************************************************************)
(* SendMessage.                                                            *)
(***************************************************************************)
\* output.Destination(): a ChannelID, or a value of another type.
Destinations ==
    {ChannelID(id) : id \in ChannelIDs \cup {<<>>}}
    \cup {[type |-> "string", id |-> <<"c", "1">>]}

Help1 == [Identifier |-> <<"e">>, Instruction |-> <<"s", "a", "y">>]
Help2 == [Identifier |-> <<"h", "i">>, Instruction |-> <<>>]

\* output.Content(): its dynamic type and, by type, the string, the
\* *discordgo.MessageSend or the *sarah.CommandHelps it is.
StringContent(text) ==
    [type |-> "string", text |-> text, data |-> Nil, helps |-> <<>>]
MessageSendContent(data) ==
    [type |-> "*discordgo.MessageSend", text |-> <<>>, data |-> Some(data),
     helps |-> <<>>]
CommandHelpsContent(helps) ==
    [type |-> "*sarah.CommandHelps", text |-> <<>>, data |-> Nil,
     helps |-> helps]
OtherContent == [type |-> "int", text |-> <<>>, data |-> Nil, helps |-> <<>>]

OutputContents ==
    {StringContent(t) : t \in {<<>>, Hello, <<" ">> \o Hello \o <<"\n">>}}
    \cup {MessageSendContent(d) :
            d \in {[Content |-> Hello, Embeds |-> 0],
                   [Content |-> <<>>, Embeds |-> 1]}}
    \cup {CommandHelpsContent(h) :
            h \in {<<>>, <<Help1>>, <<Help1, Help2>>, <<Help2, Help1>>}}
    \cup {OtherContent}

Outputs == [Destination : Destinations, Content : OutputContents]

\* What ChannelMessageSend and ChannelMessageSendComplex return as error.
SendRets == {Nil, Some(<<"4", "0", "3">>)}

\* fmt.Sprintf("**%s**: %s", h.Identifier, h.Instruction)
HelpLine(h) ==
    <<"*", "*">> \o h.Identifier \o <<"*", "*", ":", " ">> \o h.Instruction

\* A join that ends every line, the last one too, with a newline.
RECURSIVE HelpText_TrailingNewline(_)
HelpText_TrailingNewline(helps) ==
    IF helps = <<>> THEN <<>>
    ELSE HelpLine(helps[1]) \o <<"\n">> \o HelpText_TrailingNewline(Tail(helps))

\* strings.Join(lines, "\n") over the lines of the help entries
RECURSIVE HelpText(_)
HelpText(helps) ==
    IF helps = <<>> THEN <<>>
    ELSE IF Len(helps) = 1 THEN HelpLine(helps[1])
    ELSE HelpLine(helps[1]) \o <<"\n">> \o HelpText(Tail(helps))

ChannelMessageSend(channelID, text, ret) ==
    [op |-> "ChannelMessageSend", channelID |-> channelID, text |-> text,
     data |-> Nil, ret |-> ret]

ChannelMessageSendComplex(channelID, data, ret) ==
    [op |-> "ChannelMessageSendComplex", channelID |-> channelID,
     text |-> <<>>, data |-> data, ret |-> ret]

\* A destination test that accepts every destination.
IsChannelID_Any(destination) == destination.type \in {"ChannelID", "string"}

\* A destination test that rejects the empty channel ID.
IsChannelID_NonEmpty(destination) ==
    destination.type = "ChannelID" /\ destination.id # <<>>

\* output.Destination().(ChannelID)
IsChannelID(destination) == destination.type = "ChannelID"

\* SendMessage that sends the text of a rich message as plain text.
SendCalls_Flattened(output, ret) ==
    IF ~IsChannelID(output.Destination) THEN <<>>
    ELSE LET channelID == output.Destination.id
             content == output.Content
         IN  CASE content.type = "string" ->
                      <<ChannelMessageSend(channelID, content.text, ret)>>
               [] content.type = "*discordgo.MessageSend" ->
                      <<ChannelMessageSend(channelID, content.data[1].Content,
                                           ret)>>
               [] content.type = "*sarah.CommandHelps" ->
                      <<ChannelMessageSend(channelID, HelpText(content.helps),
                                           ret)>>
               [] OTHER -> <<>>

\* SendMessage that sends once more when the session returned an error.
SendCalls_Retry(output, ret) ==
    IF ~IsChannelID(output.Destination) THEN <<>>
    ELSE LET channelID == output.Destination.id
             content == output.Content
             again == IF ret # Nil
                      THEN <<ChannelMessageSend(channelID, content.text, Nil)>>
                      ELSE <<>>
         IN  CASE content.type = "string" ->
                      <<ChannelMessageSend(channelID, content.text, ret)>>
                      \o again
               [] content.type = "*discordgo.MessageSend" ->
                      <<ChannelMessageSendComplex(channelID, content.data, ret)>>
               [] content.type = "*sarah.CommandHelps" ->
                      <<ChannelMessageSend(channelID, HelpText(content.helps),
                                           ret)>>
               [] OTHER -> <<>>

\* SendMessage that trims the text it sends.
SendCalls_Trimmed(output, ret) ==
    IF ~IsChannelID(output.Destination) THEN <<>>
    ELSE LET channelID == output.Destination.id
             content == output.Content
         IN  CASE content.type = "string" ->
                      <<ChannelMessageSend(channelID, TrimSpace(content.text),
                                           ret)>>
               [] content.type = "*discordgo.MessageSend" ->
                      <<ChannelMessageSendComplex(channelID, content.data, ret)>>
               [] content.type = "*sarah.CommandHelps" ->
                      <<ChannelMessageSend(channelID, HelpText(content.helps),
                                           ret)>>
               [] OTHER -> <<>>

\* The calls one SendMessage invocation makes on the session, which returns
\* the error ret.
SendCalls(output, ret) ==
    IF ~IsChannelID(output.Destination) THEN <<>>
    ELSE LET channelID == output.Destination.id
             content == output.Content
         IN  CASE content.type = "string" ->
                      <<ChannelMessageSend(channelID, content.text, ret)>>
               [] content.type = "*discordgo.MessageSend" ->
                      <<ChannelMessageSendComplex(channelID, content.data, ret)>>
               [] content.type = "*sarah.CommandHelps" ->
                      <<ChannelMessageSend(channelID, HelpText(content.helps),
                                           ret)>>
               [] OTHER -> <<>>

SendMessage(output, ret) ==
    /\ sends < MaxSends
    /\ lastSend' = Some([output |-> output, calls |-> SendCalls(output, ret)])
    /\ sends' = sends + 1
    /\ sendFails' = sendFails + Failures(SendCalls(output, ret))
    /\ UNCHANGED <<config, runVars, handleVars, callVars, concVars>>

(***************************************************************************)
(* Construction: NewConfig, WithSession and NewAdapter.                    *)
(***************************************************************************)
MaxOptions == 2

\* NewConfig without the intent that lets the bot read message content.
NewConfig_NoMessageContent ==
    [Token |-> <<>>, HelpCommand |-> DotHelp, AbortCommand |-> DotAbort,
     Intents |-> BitOr(IntentsGuildMessages, IntentsDirectMessages)]

NewConfig ==
    [Token |-> <<>>, HelpCommand |-> DotHelp, AbortCommand |-> DotAbort,
     Intents |-> DefaultIntents]

\* errors.New("token must be set or a session must be provided via
\* WithSession")
ErrEmptyToken ==
    <<"t", "o", "k", "e", "n", " ", "m", "u", "s", "t", " ", "b", "e", " ",
      "s", "e", "t", " ", "o", "r", " ", "a", " ", "s", "e", "s", "s", "i",
      "o", "n", " ", "m", "u", "s", "t", " ", "b", "e", " ", "p", "r", "o",
      "v", "i", "d", "e", "d", " ", "v", "i", "a", " ", "W", "i", "t", "h",
      "S", "e", "s", "s", "i", "o", "n">>

\* The values the owner of a Config assigns to its fields before it hands
\* the Config to NewAdapter.
Tokens == {<<>>, <<"t", "k">>}
IntentsChoices == {DefaultIntents, IntentsGuildMessages}

\* A *discordgo.Session as NewAdapter sees it: which object it is (id; 0 is
\* the object discordgo.New allocates), its Token and its Identify.Intents.
InjectedSessions ==
    { [id |-> 1, Token |-> <<>>, Intents |-> 0],
      [id |-> 2, Token |-> <<>>, Intents |-> IntentsGuildMessages] }

\* The *discordgo.Session pointers a caller passes to WithSession; the nil
\* pointer is one of them.
SessionPtrs == {Nil} \cup {Some(ds) : ds \in InjectedSessions}

\* A value of the interface type session that holds a *discordgo.Session
\* pointer.  It differs from the nil interface (Nil) even when ptr is nil.
AsSession(ptr) == Some([type |-> "*discordgo.Session", ptr |-> ptr])

\* func(adapter *Adapter) { adapter.session = session }
WithSession(ptr) == [option |-> "WithSession", session |-> ptr]

AdapterOptions == {WithSession(ptr) : ptr \in SessionPtrs}

OptionSeqs == UNION {[1..n -> AdapterOptions] : n \in 0..MaxOptions}

\* opt(adapter)
ApplyOption(adapter, opt) ==
    [adapter EXCEPT !.session = AsSession(opt.session)]

\* for _, opt := range options { opt(adapter) }
RECURSIVE ApplyOptions(_, _)
ApplyOptions(adapter, options) ==
    IF options = <<>>
    THEN adapter
    ELSE ApplyOptions(ApplyOption(adapter, Head(options)), Tail(options))

\* discordgo.New of the pinned discordgo release allocates a Session with
\* the given token and returns a nil error on every input.
NewSessionErrs == {Nil}

\* discordgo.New(token): the new Session carries the library's own intents
\* (0 stands for them) until NewAdapter assigns Config.Intents.
DiscordgoNew(token, err) ==
    IF err # Nil
    THEN [s |-> Nil, err |-> err]
    ELSE [s |-> Some([id |-> 0, Token |-> token, Intents |-> 0]),
          err |-> Nil]

BotPrefix == <<"B", "o", "t", " ">>

\* fmt.Errorf("failed to create Discord session: %w", err)
SessionFailedPrefix ==
    <<"f", "a", "i", "l", "e", "d", " ", "t", "o", " ", "c", "r", "e", "a",
      "t", "e", " ", "D", "i", "s", "c", "o", "r", "d", " ", "s", "e", "s",
      "s", "i", "o", "n", ":", " ">>

\* NewAdapter that builds a session from an empty token as well.
NewAdapter_NoTokenCheck(c, options, newErr) ==
    LET adapter == ApplyOptions([config |-> c, session |-> Nil], options)
        new == DiscordgoNew(BotPrefix \o c.Token, newErr)
    IN  IF adapter.session = Nil
        THEN IF new.err # Nil
             THEN [adapter |-> Nil, created |-> 1,
                   err |-> Some(SessionFailedPrefix \o new.err[1])]
             ELSE [adapter |->
                       Some([adapter EXCEPT !.session =
                           AsSession(Some([new.s[1] EXCEPT
                                               !.Intents = c.Intents]))]),
                   created |-> 1, err |-> Nil]
        ELSE [adapter |-> Some(adapter), created |-> 0, err |-> Nil]

\* NewAdapter that builds a session from the token whenever there is one,
\* injected session or not.
NewAdapter_PrefersToken(c, options, newErr) ==
    LET adapter == ApplyOptions([config |-> c, session |-> Nil], options)
        new == DiscordgoNew(BotPrefix \o c.Token, newErr)
    IN  IF adapter.session = Nil \/ c.Token # <<>>
        THEN IF c.Token = <<>>
             THEN [adapter |-> Nil, created |-> 0,
                   err |-> Some(ErrEmptyToken)]
             ELSE IF new.err # Nil
             THEN [adapter |-> Nil, created |-> 1,
                   err |-> Some(SessionFailedPrefix \o new.err[1])]
             ELSE [adapter |->
                       Some([adapter EXCEPT !.session =
                           AsSession(Some([new.s[1] EXCEPT
                                               !.Intents = c.Intents]))]),
                   created |-> 1, err |-> Nil]
        ELSE [adapter |-> Some(adapter), created |-> 0, err |-> Nil]

\* NewAdapter(config, options...): the *Adapter and the error it returns,
\* and how many times it called discordgo.New.
NewAdapter(c, options, newErr) ==
    LET adapter == ApplyOptions([config |-> c, session |-> Nil], options)
        new == DiscordgoNew(BotPrefix \o c.Token, newErr)
    IN  IF adapter.session = Nil
        THEN IF c.Token = <<>>
             THEN [adapter |-> Nil, created |-> 0,
                   err |-> Some(ErrEmptyToken)]
             ELSE IF new.err # Nil
             THEN [adapter |-> Nil, created |-> 1,
                   err |-> Some(SessionFailedPrefix \o new.err[1])]
             ELSE [adapter |->
                       Some([adapter EXCEPT !.session =
                           AsSession(Some([new.s[1] EXCEPT
                                               !.Intents = c.Intents]))]),
                   created |-> 1, err |-> Nil]
        ELSE [adapter |-> Some(adapter), created |-> 0, err |-> Nil]

\* cfg := NewConfig()
CallNewConfig ==
    /\ conf' = Some(NewConfig)
    /\ confEdited' = FALSE
    /\ UNCHANGED <<config, runVars, handleVars, sendVars, concVars, lastNew, lastResp,
                   lastInput>>

\* cfg.<field> = <value>, by the owner of the Config.
SetField(field, value) ==
    /\ conf # Nil
    /\ conf' = Some([conf[1] EXCEPT ![field] = value])
    /\ confEdited' = TRUE
    /\ UNCHANGED <<config, runVars, handleVars, sendVars, concVars, lastNew, lastResp,
                   lastInput>>

SetToken(t) == SetField("Token", t)
SetHelpCommand(h) == SetField("HelpCommand", h)
SetAbortCommand(a) == SetField("AbortCommand", a)
SetIntents(i) == SetField("Intents", i)

\* adapter, err := NewAdapter(cfg, options...)
CallNewAdapter(options, newErr) ==
    /\ conf # Nil
    /\ lastNew' = Some([config |-> conf[1], unmodified |-> ~confEdited,
                        options |-> options,
                        ret |-> NewAdapter(conf[1], options, newErr)])
    /\ UNCHANGED <<config, runVars, handleVars, sendVars, concVars, conf, confEdited,
                   lastResp, lastInput>>

(***************************************************************************)
(* Responses: NewResponse, RespWithNext and RespWithNextSerializable.      *)
(***************************************************************************)
\* The event behind the Inputs handed to NewResponse.
SampleEvent ==
    [ChannelID |-> <<"c", "1">>, Content |-> Hello,
     Author |-> Some([ID |-> UserID]), Timestamp |-> 1]

\* A sarah.Input of another adapter.
ForeignInput(input) == [type |-> "*slack.Input", input |-> input]

\* The sarah.Input values a command passes to NewResponse: the nil
\* interface, this adapter's *Input, the help and abort sentinels that wrap
\* one, and another adapter's Input.
RespInputs ==
    LET in == MessageToInput(SampleEvent).input[1]
    IN  {Nil, Some(AsInput(in)), Some(NewHelpInput(in)),
         Some(NewAbortInput(in)), Some(ForeignInput(in))}

RespMessages == {<<>>, Hello, <<" ">> \o Hello \o <<"\n">>}

\* sarah.ContextualFunc and *sarah.SerializableArgument values; both may be
\* nil.
ContextualFuncs == {Nil, Some("next")}
SerializableArguments == {Nil, Some("arg")}

\* &sarah.UserContext{Next: fnc} and &sarah.UserContext{Serializable: arg}
RespWithNext(fnc) ==
    [option |-> "RespWithNext", fnc |-> fnc, arg |-> Nil]
RespWithNextSerializable(arg) ==
    [option |-> "RespWithNextSerializable", fnc |-> Nil, arg |-> arg]

RespOptions ==
    {RespWithNext(fnc) : fnc \in ContextualFuncs}
        \cup {RespWithNextSerializable(arg) : arg \in SerializableArguments}

RespOptionSeqs == UNION {[1..n -> RespOptions] : n \in 0..MaxOptions}

\* An option that fills its field of the context already stashed instead of
\* stashing a new context.
ApplyRespOption_Merge(stash, opt) ==
    LET old == IF stash.userContext = Nil
               THEN [Next |-> Nil, Serializable |-> Nil]
               ELSE stash.userContext[1]
    IN  IF opt.option = "RespWithNext"
        THEN [userContext |-> Some([old EXCEPT !.Next = opt.fnc])]
        ELSE [userContext |-> Some([old EXCEPT !.Serializable = opt.arg])]

\* opt(stash): options.userContext = &sarah.UserContext{...}
ApplyRespOption(stash, opt) ==
    IF opt.option = "RespWithNext"
    THEN [userContext |-> Some([Next |-> opt.fnc, Serializable |-> Nil])]
    ELSE [userContext |-> Some([Next |-> Nil, Serializable |-> opt.arg])]

\* for _, opt := range options { opt(stash) }
RECURSIVE ApplyRespOptions(_, _)
ApplyRespOptions(stash, options) ==
    IF options = <<>>
    THEN stash
    ELSE ApplyRespOptions(ApplyRespOption(stash, Head(options)),
                          Tail(options))

\* %T of a sarah.Input
TypeName(input) == IF input = Nil THEN "<nil>" ELSE input[1].type

\* fmt.Errorf("%T is not a *discord.Input", input): the type name, kept as
\* one element, followed by the characters of the text.
NotDiscordInput(input) ==
    <<TypeName(input)>> \o
        <<" ", "i", "s", " ", "n", "o", "t", " ", "a", " ", "*", "d", "i",
          "s", "c", "o", "r", "d", ".", "I", "n", "p", "u", "t">>

\* _, ok := input.(*Input)
IsDiscordInput(input) == input # Nil /\ input[1].type = "*discord.Input"

\* NewResponse that looks through a help or abort sentinel for the *Input
\* it wraps.
NewResponse_AcceptsWrapped(input, message, options) ==
    IF ~(input # Nil /\ input[1].type \in {"*discord.Input",
                                           "*sarah.HelpInput",
                                           "*sarah.AbortInput"})
    THEN [resp |-> Nil, err |-> Some(NotDiscordInput(input)), applied |-> 0]
    ELSE LET stash == ApplyRespOptions([userContext |-> Nil], options)
         IN  [resp |-> Some([Content |-> StringContent(message),
                             UserContext |-> stash.userContext]),
              err |-> Nil, applied |-> Len(options)]

\* NewResponse(input, message, options...): the *sarah.CommandResponse and
\* the error it returns, and how many options it ran.
NewResponse(input, message, options) ==
    IF ~IsDiscordInput(input)
    THEN [resp |-> Nil, err |-> Some(NotDiscordInput(input)), applied |-> 0]
    ELSE LET stash == ApplyRespOptions([userContext |-> Nil], options)
         IN  [resp |-> Some([Content |-> StringContent(message),
                             UserContext |-> stash.userContext]),
              err |-> Nil, applied |-> Len(options)]

\* resp, err := NewResponse(input, message, options...)
CallNewResponse(input, message, options) ==
    /\ lastResp' = Some([input |-> input, message |-> message,
                         options |-> options,
                         ret |-> NewResponse(input, message, options)])
    /\ UNCHANGED <<config, runVars, handleVars, sendVars, concVars, conf, confEdited,
                   lastNew, lastInput>>

\* input, err := MessageToInput(m); the invocation before it is kept next
\* to it.
CallMessageToInput(m) ==
    /\ lastInput' = <<[m |-> m, ret |-> MessageToInput(m)]>>
                         \o (IF lastInput = <<>>
                             THEN <<>>
                             ELSE <<lastInput[1]>>)
    /\ UNCHANGED <<config, runVars, handleVars, sendVars, concVars, conf, confEdited,
                   lastNew, lastResp>>

(***************************************************************************)
(* Specifications.                                                         *)
(***************************************************************************)
Init ==
    /\ config \in Configs
    /\ pc = "idle"
    /\ run = 0
    /\ ctxDone = FALSE
    /\ handlers = <<>>
    /\ calls = <<>>
    /\ notified = <<>>
    /\ last = Nil
    /\ events = 0
    /\ enqueueFails = 0
    /\ lastSend = Nil
    /\ sends = 0
    /\ sendFails = 0
    /\ conf = Nil
    /\ confEdited = FALSE
    /\ lastNew = Nil
    /\ lastResp = Nil
    /\ lastInput = Nil
    /\ session = AsSession(Some([id |-> 1, Token |-> <<>>, Intents |-> 0]))
    /\ threads = <<>>
    /\ queue = <<>>

\* The events and outputs the adapter meets while Run goes through its steps.
RunEvents ==
    {m \in Events : /\ m.ChannelID = <<"c", "1">>
                    /\ m.Timestamp = 1
                    /\ m.Content = DotHelp
                    /\ m.Author # Some([ID |-> BotID])}
RunSessions == {s \in Sessions : s.State # Nil /\ s.State[1].User # Nil}
RunOutputs ==
    {o \in Outputs : /\ o.Destination \in {ChannelID(<<"c", "1">>)}
                     /\ o.Content = StringContent(Hello)}

\* Run, and the session delivering events to the handlers Run registered.
NextRun ==
    \/ RunStart
    \/ RunAddHandler
    \/ RunOpen
    \/ RunOpened
    \/ \E err \in OpenErrs : RunOpenFailed(err)
    \/ Cancel
    \/ RunClose
    \/ \E closeErr \in {Nil} \cup {Some(e) : e \in CloseErrs} :
          RunClosed(closeErr)
    \/ \E s \in RunSessions, m \in RunEvents : Deliver(s, m)

SpecRun == Init /\ [][NextRun]_vars

\* Run alone.  Its own steps are taken by a goroutine the scheduler keeps
\* running, and a call of Close that is under way returns.
NextRunOnly ==
    \/ RunStart
    \/ RunAddHandler
    \/ RunOpen
    \/ RunOpened
    \/ \E err \in OpenErrs : RunOpenFailed(err)
    \/ Cancel
    \/ RunClose
    \/ \E closeErr \in {Nil} \cup {Some(e) : e \in CloseErrs} :
          RunClosed(closeErr)

SpecRunLive ==
    /\ Init
    /\ [][NextRunOnly]_vars
    /\ WF_vars(RunAddHandler)
    /\ WF_vars(RunOpen)
    /\ WF_vars(RunClose)
    /\ WF_vars(\E closeErr \in {Nil} \cup {Some(e) : e \in CloseErrs} :
                   RunClosed(closeErr))

\* The whole adapter: Run, the delivered events, and SendMessage called
\* while Run goes on.
Next ==
    \/ NextRun
    \/ \E o \in RunOutputs, ret \in SendRets : SendMessage(o, ret)

Spec == Init /\ [][Next]_vars

\* handleMessage on every event, session and enqueue result.
HandleEvents == {m \in Events : m.Timestamp = 1}

NextHandle ==
    \E s \in Sessions, m \in HandleEvents, ret \in EnqueueRets :
        handleMessage(s, m, ret)

SpecHandle == Init /\ [][NextHandle]_vars

\* SendMessage on every output and send result.
NextSend ==
    \E o \in Outputs, ret \in SendRets : SendMessage(o, ret)

SpecSend == Init /\ [][NextSend]_vars

\* Construction alone: a Config is made, its owner assigns fields, and
\* NewAdapter is called with it.
NextNew ==
    \/ CallNewConfig
    \/ \E t \in Tokens : SetToken(t)
    \/ \E h \in HelpCommands : SetHelpCommand(h)
    \/ \E a \in AbortCommands : SetAbortCommand(a)
    \/ \E i \in IntentsChoices : SetIntents(i)
    \/ \E options \in OptionSeqs, newErr \in NewSessionErrs :
           CallNewAdapter(options, newErr)

SpecNew == Init /\ [][NextNew]_vars

\* NewResponse alone, on every input, message and option sequence.
NextResp ==
    \E input \in RespInputs, message \in RespMessages,
       options \in RespOptionSeqs :
        CallNewResponse(input, message, options)

SpecResp == Init /\ [][NextResp]_vars

\* MessageToInput alone, on every event.
NextInput ==
    \E m \in Events : CallMessageToInput(m)

SpecInput == Init /\ [][NextInput]_vars

\* Invocations of the handler that the session runs concurrently, their
\* steps interleaved in every order.
NextConc ==
    \/ \E s \in ConcSessions, m \in ConcEvents : HStart(s, m)
    \/ \E t \in DOMAIN threads :
           \/ HTranslate(t)
           \/ HFilter(t)
           \/ HClassify(t)
           \/ \E ret \in EnqueueRets : HEnqueue(t, ret)

SpecConc == Init /\ [][NextConc]_vars

(***************************************************************************)
(* Properties of Run.                                                      *)
(***************************************************************************)
\* The entries of calls that are event ev of operation op in Run invocation r.
CallsOf(op, ev, r) ==
    {i \in DOMAIN calls : calls[i].op = op /\ calls[i].ev = ev /\ calls[i].run = r}

OpenFailedIn(r) == \E i \in CallsOf("Open", "return", r) : calls[i].err # Nil
OpenSucceededIn(r) == \E i \in CallsOf("Open", "return", r) : calls[i].err = Nil
NotifiedIn(r) == {i \in DOMAIN notified : notified[i].run = r}

EndsWith(str, suffix) ==
    /\ Len(suffix) <= Len(str)
    /\ SubSeq(str, Len(str) - Len(suffix) + 1, Len(str)) = suffix

\* C1: in every Run invocation in which Session.Open failed, notifyErr has
\* been called exactly once, with a non-continuable error whose text carries
\* the text of the error Open returned; Open has been called exactly once,
\* Close not at all, and Run has returned, whether or not the context is
\* canceled.
C1_OpenFailureNotifiedOnce ==
    \A r \in 1..run :
        OpenFailedIn(r) =>
            /\ Cardinality(NotifiedIn(r)) = 1
            /\ \A i \in NotifiedIn(r) :
                   /\ notified[i].err.type = "*sarah.BotNonContinuableError"
                   /\ \E j \in CallsOf("Open", "return", r) :
                          /\ calls[j].err # Nil
                          /\ calls[j].err[1] # <<>>
                          /\ EndsWith(notified[i].err.err, calls[j].err[1])
            /\ Cardinality(CallsOf("Open", "call", r)) = 1
            /\ CallsOf("Close", "call", r) = {}
            /\ r = run => pc = "returned"

\* Open failed in the current Run invocation, whose context is not canceled,
\* and Run has returned.
C1_Witness ==
    /\ run >= 1
    /\ OpenFailedIn(run)
    /\ ~ctxDone
    /\ pc = "returned"
    /\ Len(notified) >= 1

\* C2: in every Run invocation in which Session.Open succeeded, Run has
\* neither returned nor called Close as long as the context is not canceled;
\* Close is called at most once, and when Run has returned it has called
\* Close exactly once and Close has returned.
C2_BlocksUntilCanceledThenCloses ==
    \A r \in 1..run :
        OpenSucceededIn(r) =>
            /\ Cardinality(CallsOf("Close", "call", r)) <= 1
            /\ (r = run /\ ~ctxDone) =>
                   /\ pc = "waiting"
                   /\ CallsOf("Close", "call", r) = {}
            /\ r = run => pc \in {"waiting", "closing", "returned"}
            /\ (r = run /\ pc = "closing") =>
                   /\ Cardinality(CallsOf("Close", "call", r)) = 1
                   /\ CallsOf("Close", "return", r) = {}
            /\ (r < run \/ pc = "returned") =>
                   /\ Cardinality(CallsOf("Close", "call", r)) = 1
                   /\ Cardinality(CallsOf("Close", "return", r)) = 1

\* Open succeeded, the context was canceled, Close was called and Run has
\* returned.
C2_Witness ==
    /\ run >= 1
    /\ OpenSucceededIn(run)
    /\ ctxDone
    /\ pc = "returned"
    /\ Cardinality(CallsOf("Close", "return", run)) = 1

(***************************************************************************)
(* Properties of the message handler.  They are stated over the last       *)
(* handleMessage invocation, with the notions of the specification         *)
(* written out independently of the handler's code.                        *)
(***************************************************************************)
\* t without its leading and trailing whitespace.
Trimmed(t) ==
    LET solid == {i \in DOMAIN t : ~IsSpace(t[i])}
        first == CHOOSE i \in solid : \A j \in solid : i <= j
        final == CHOOSE i \in solid : \A j \in solid : j <= i
    IN  IF solid = {} THEN <<>> ELSE SubSeq(t, first, final)

\* The session exposes the identity of the bot.
HasIdentity(s) == s.State # Nil /\ s.State[1].User # Nil

\* The event of invocation inv is the bot's own, as far as the session tells.
SelfAuthored(inv) ==
    /\ inv.m.Author # Nil
    /\ HasIdentity(inv.s)
    /\ inv.m.Author[1].ID = inv.s.State[1].User[1].ID

\* The event of invocation inv is neither skipped for its missing author nor
\* filtered as the bot's own.
Processed(inv) == inv.m.Author # Nil /\ ~SelfAuthored(inv)

\* The value v is or wraps the Input of event m: sender key, untrimmed text,
\* time, destination and the event itself.
CarriesInputOf(v, m) ==
    /\ SenderKey(v) = m.ChannelID \o <<"_">> \o m.Author[1].ID
    /\ Message(v) = m.Content
    /\ SentAt(v) = m.Timestamp
    /\ ReplyTo(v) = [type |-> "ChannelID", id |-> m.ChannelID]
    /\ v.input.Event = m

\* The invocation inv made exactly one enqueue call, with a value of type
\* type that carries the Input of its event.
EnqueuedOnce(inv, type) ==
    /\ Len(inv.calls) = 1
    /\ inv.calls[1].arg.type = type
    /\ CarriesInputOf(inv.calls[1].arg, inv.m)

MatchesHelp(inv) ==
    config.HelpCommand # <<>> /\ Trimmed(inv.m.Content) = config.HelpCommand
MatchesAbort(inv) ==
    config.AbortCommand # <<>> /\ Trimmed(inv.m.Content) = config.AbortCommand

\* C3: an invocation of handleMessage on an event without author makes no
\* enqueue call, whatever the content, the triggers and the session.
C3_NoAuthorNothingEnqueued ==
    \A i \in DOMAIN last :
        last[i].m.Author = Nil => last[i].calls = <<>>

\* An event without author whose text is the help trigger was handled.
C3_Witness ==
    /\ last # Nil
    /\ last[1].m.Author = Nil
    /\ MatchesHelp(last[1])
    /\ last[1].calls = <<>>

\* C4: an event whose author is the session's own user is not enqueued when
\* the session has State and State.User; when either is missing, an event
\* with an author is enqueued exactly once, as the plain Input or the
\* sentinel its text calls for.
C4_OwnMessageFiltered ==
    \A i \in DOMAIN last :
        LET inv == last[i]
        IN  /\ SelfAuthored(inv) => inv.calls = <<>>
            /\ (inv.m.Author # Nil /\ ~HasIdentity(inv.s)) =>
                   EnqueuedOnce(inv,
                       IF MatchesHelp(inv) THEN "*sarah.HelpInput"
                       ELSE IF MatchesAbort(inv) THEN "*sarah.AbortInput"
                       ELSE "*discord.Input")

\* The bot's own message, with the help trigger as text, was dropped.
C4_Witness ==
    /\ last # Nil
    /\ SelfAuthored(last[1])
    /\ MatchesHelp(last[1])
    /\ last[1].calls = <<>>

\* C5: for an event with an author whose trimmed text equals neither
\* trigger, every enqueued value is the plain Input with sender key
\* channelID_authorID and the untrimmed content as message, and there is
\* exactly one unless the event is the bot's own.
C5_PlainInputEnqueued ==
    \A i \in DOMAIN last :
        LET inv == last[i]
        IN  ( /\ inv.m.Author # Nil
              /\ Trimmed(inv.m.Content) # config.HelpCommand
              /\ Trimmed(inv.m.Content) # config.AbortCommand ) =>
                /\ \A k \in DOMAIN inv.calls :
                       /\ inv.calls[k].arg.type = "*discord.Input"
                       /\ SenderKey(inv.calls[k].arg) =
                              inv.m.ChannelID \o <<"_">> \o inv.m.Author[1].ID
                       /\ Message(inv.calls[k].arg) = inv.m.Content
                /\ Processed(inv) => EnqueuedOnce(inv, "*discord.Input")

\* A text with whitespace around it that is no trigger was enqueued.
C5_Witness ==
    /\ last # Nil
    /\ Processed(last[1])
    /\ last[1].m.Content # Trimmed(last[1].m.Content)
    /\ Trimmed(last[1].m.Content) \notin {<<>>, DotHelp, DotAbort}
    /\ Len(last[1].calls) = 1
    /\ last[1].calls[1].arg.type = "*discord.Input"

\* C6: a processed event whose trimmed text equals the non-empty help
\* trigger is enqueued as a help sentinel that wraps the Input, whose message
\* is the untrimmed content; a text whose trimmed form differs from the
\* trigger is never enqueued as a help sentinel.
C6_HelpSentinel ==
    \A i \in DOMAIN last :
        LET inv == last[i]
        IN  /\ (Processed(inv) /\ MatchesHelp(inv)) =>
                   EnqueuedOnce(inv, "*sarah.HelpInput")
            /\ ~MatchesHelp(inv) =>
                   \A k \in DOMAIN inv.calls :
                       inv.calls[k].arg.type # "*sarah.HelpInput"

\* The help trigger with whitespace around it was enqueued as a help
\* sentinel with the untrimmed message.
C6_Witness ==
    /\ last # Nil
    /\ Processed(last[1])
    /\ MatchesHelp(last[1])
    /\ last[1].m.Content # config.HelpCommand
    /\ Len(last[1].calls) = 1
    /\ last[1].calls[1].arg.type = "*sarah.HelpInput"
    /\ Message(last[1].calls[1].arg) = last[1].m.Content

NeverEnqueuedAs(inv, type) ==
    \A k \in DOMAIN inv.calls : inv.calls[k].arg.type # type

\* C8 as claimed: with an empty trigger no message is wrapped in that
\* trigger's sentinel, and a text equal to its default (.help, .abort) is
\* enqueued as the plain Input.
C8_EmptyTriggerPlainAlways ==
    \A i \in DOMAIN last :
        LET inv == last[i]
        IN  /\ config.HelpCommand = <<>> =>
                   /\ NeverEnqueuedAs(inv, "*sarah.HelpInput")
                   /\ (Processed(inv) /\ Trimmed(inv.m.Content) = DotHelp) =>
                          EnqueuedOnce(inv, "*discord.Input")
            /\ config.AbortCommand = <<>> =>
                   /\ NeverEnqueuedAs(inv, "*sarah.AbortInput")
                   /\ (Processed(inv) /\ Trimmed(inv.m.Content) = DotAbort) =>
                          EnqueuedOnce(inv, "*discord.Input")

\* C8: with an empty trigger no message, an empty or whitespace-only one
\* included, is wrapped in that trigger's sentinel, and a text equal to its
\* default (.help, .abort) is enqueued as the plain Input unless it equals
\* the other, non-empty trigger.
C8_EmptyTriggerDisabled ==
    \A i \in DOMAIN last :
        LET inv == last[i]
        IN  /\ config.HelpCommand = <<>> =>
                   /\ NeverEnqueuedAs(inv, "*sarah.HelpInput")
                   /\ ( /\ Processed(inv)
                        /\ Trimmed(inv.m.Content) = DotHelp
                        /\ ~MatchesAbort(inv) ) =>
                          EnqueuedOnce(inv, "*discord.Input")
            /\ config.AbortCommand = <<>> =>
                   /\ NeverEnqueuedAs(inv, "*sarah.AbortInput")
                   /\ ( /\ Processed(inv)
                        /\ Trimmed(inv.m.Content) = DotAbort
                        /\ ~MatchesHelp(inv) ) =>
                          EnqueuedOnce(inv, "*discord.Input")

\* With the help trigger empty, a whitespace-only message, whose trimmed text
\* equals that trigger, was enqueued as the plain Input.
C8_Witness ==
    /\ last # Nil
    /\ config.HelpCommand = <<>>
    /\ Processed(last[1])
    /\ last[1].m.Content # <<>>
    /\ Trimmed(last[1].m.Content) = <<>>
    /\ Len(last[1].calls) = 1
    /\ last[1].calls[1].arg.type = "*discord.Input"

\* C9: a handleMessage invocation calls enqueueInput at most once, also when
\* the call returns an error; notifyErr is not called; and a processed event
\* is enqueued exactly once, as its text calls for, however many enqueue
\* calls have failed before.
C9_EnqueueFailureIgnored ==
    /\ notified = <<>>
    /\ enqueueFails <= events
    /\ \A i \in DOMAIN last :
           LET inv == last[i]
           IN  /\ Len(inv.calls) <= 1
               /\ Processed(inv) =>
                      EnqueuedOnce(inv,
                          IF MatchesHelp(inv) THEN "*sarah.HelpInput"
                          ELSE IF MatchesAbort(inv) THEN "*sarah.AbortInput"
                          ELSE "*discord.Input")

\* After an enqueue call of an earlier invocation failed, the last event was
\* enqueued, and that call succeeded.
C9_Witness ==
    /\ last # Nil
    /\ events >= 2
    /\ enqueueFails >= 1
    /\ Len(last[1].calls) = 1
    /\ last[1].calls[1].ret = Nil

(***************************************************************************)
(* Properties of SendMessage, stated over the last invocation.             *)
(***************************************************************************)
\* C10: SendMessage with a ChannelID destination and string content calls
\* ChannelMessageSend exactly once, with the ID of that channel and the text
\* unchanged, and does not call ChannelMessageSendComplex.
C10_StringSentAsPlainText ==
    \A i \in DOMAIN lastSend :
        LET o == lastSend[i].output
            cs == lastSend[i].calls
        IN  (o.Destination.type = "ChannelID" /\ o.Content.type = "string") =>
                /\ Len(cs) = 1
                /\ cs[1].op = "ChannelMessageSend"
                /\ cs[1].channelID = o.Destination.id
                /\ cs[1].text = o.Content.text

\* A text with whitespace around it was sent to a channel as it is.
C10_Witness ==
    /\ lastSend # Nil
    /\ lastSend[1].output.Destination.type = "ChannelID"
    /\ lastSend[1].output.Destination.id # <<>>
    /\ lastSend[1].output.Content.type = "string"
    /\ lastSend[1].output.Content.text # Trimmed(lastSend[1].output.Content.text)
    /\ Len(lastSend[1].calls) = 1
    /\ lastSend[1].calls[1].text = lastSend[1].output.Content.text

\* C11: SendMessage with a ChannelID destination and a *discordgo.MessageSend
\* as content calls ChannelMessageSendComplex exactly once, with the ID of
\* that channel and the very payload of the output, and does not call
\* ChannelMessageSend.
C11_RichMessageSentComplex ==
    \A i \in DOMAIN lastSend :
        LET o == lastSend[i].output
            cs == lastSend[i].calls
        IN  ( /\ o.Destination.type = "ChannelID"
              /\ o.Content.type = "*discordgo.MessageSend" ) =>
                /\ Len(cs) = 1
                /\ cs[1].op = "ChannelMessageSendComplex"
                /\ cs[1].channelID = o.Destination.id
                /\ cs[1].data = o.Content.data

\* A rich message with an embed and no text was sent to a channel.
C11_Witness ==
    /\ lastSend # Nil
    /\ lastSend[1].output.Destination.type = "ChannelID"
    /\ lastSend[1].output.Content.type = "*discordgo.MessageSend"
    /\ lastSend[1].output.Content.data[1].Embeds > 0
    /\ Len(lastSend[1].calls) = 1
    /\ lastSend[1].calls[1].data = lastSend[1].output.Content.data

\* The line of help entry h, as the specification writes it.
LineOf(h) == <<"*", "*">> \o h.Identifier \o <<"*", "*", ":", " ">> \o h.Instruction

\* The number of characters before line k in the lines of helps joined by
\* single newlines.
RECURSIVE OffsetOf(_, _)
OffsetOf(helps, k) ==
    IF k = 1 THEN 0
    ELSE OffsetOf(helps, k - 1) + Len(LineOf(helps[k - 1])) + 1

\* text is the lines of helps, in their order, with one newline between two
\* lines and none after the last.
IsHelpListing(text, helps) ==
    LET n == Len(helps)
    IN  /\ Len(text) =
               IF n = 0 THEN 0 ELSE OffsetOf(helps, n) + Len(LineOf(helps[n]))
        /\ \A k \in 1..n :
               /\ SubSeq(text, OffsetOf(helps, k) + 1,
                         OffsetOf(helps, k) + Len(LineOf(helps[k])))
                      = LineOf(helps[k])
               /\ k < n =>
                      text[OffsetOf(helps, k) + Len(LineOf(helps[k])) + 1] = "\n"

\* C12: SendMessage with a ChannelID destination and a list of N >= 0 help
\* entries calls ChannelMessageSend exactly once, with a text of N lines in
\* the order of the list, line k being **identifier_k**: instruction_k, with
\* single newlines between the lines and none at the end; it does not call
\* ChannelMessageSendComplex.
C12_HelpsSentAsListing ==
    \A i \in DOMAIN lastSend :
        LET o == lastSend[i].output
            cs == lastSend[i].calls
        IN  ( /\ o.Destination.type = "ChannelID"
              /\ o.Content.type = "*sarah.CommandHelps" ) =>
                /\ Len(cs) = 1
                /\ cs[1].op = "ChannelMessageSend"
                /\ cs[1].channelID = o.Destination.id
                /\ IsHelpListing(cs[1].text, o.Content.helps)

\* Two help entries were sent as two lines.
C12_Witness ==
    /\ lastSend # Nil
    /\ lastSend[1].output.Destination.type = "ChannelID"
    /\ lastSend[1].output.Content.type = "*sarah.CommandHelps"
    /\ Len(lastSend[1].output.Content.helps) = 2
    /\ Len(lastSend[1].calls) = 1
    /\ Cardinality({k \in DOMAIN lastSend[1].calls[1].text :
                        lastSend[1].calls[1].text[k] = "\n"}) = 1

\* C13: SendMessage calls neither send operation of the session when the
\* destination is no ChannelID, whatever the content, nor when the content
\* is neither a string, a *discordgo.MessageSend nor a *sarah.CommandHelps;
\* the invocation returns all the same.
C13_InvalidOutputDropped ==
    \A i \in DOMAIN lastSend :
        LET o == lastSend[i].output
        IN  ( \/ o.Destination.type # "ChannelID"
              \/ o.Content.type \notin {"string", "*discordgo.MessageSend",
                                        "*sarah.CommandHelps"} ) =>
                /\ lastSend[i].calls = <<>>
                /\ sends >= 1

\* An output with a string as destination and a string as content was
\* dropped.
C13_Witness ==
    /\ lastSend # Nil
    /\ lastSend[1].output.Destination.type = "string"
    /\ lastSend[1].output.Content.type = "string"
    /\ lastSend[1].calls = <<>>

\* The session operation the output o calls for, if any.
SendOpFor(o) ==
    IF o.Destination.type # "ChannelID" THEN Nil
    ELSE IF o.Content.type \in {"string", "*sarah.CommandHelps"}
    THEN Some("ChannelMessageSend")
    ELSE IF o.Content.type = "*discordgo.MessageSend"
    THEN Some("ChannelMessageSendComplex")
    ELSE Nil

\* C14: a SendMessage invocation makes at most one call on the session, also
\* when that call returns an error; notifyErr is not called; and an output is
\* sent with the one call it calls for however many send calls have failed
\* before.
C14_SendFailureIgnored ==
    /\ notified = <<>>
    /\ sendFails <= sends
    /\ \A i \in DOMAIN lastSend :
           LET cs == lastSend[i].calls
               op == SendOpFor(lastSend[i].output)
           IN  /\ Len(cs) <= 1
               /\ Len(cs) = Len(op)
               /\ \A k \in DOMAIN cs : cs[k].op = op[1]

\* After a send call of an earlier invocation failed, the last output was
\* sent, and that call succeeded.
C14_Witness ==
    /\ lastSend # Nil
    /\ sends >= 2
    /\ sendFails >= 1
    /\ Len(lastSend[1].calls) = 1
    /\ lastSend[1].calls[1].ret = Nil


(***************************************************************************)
(* Claims about construction.                                              *)
(***************************************************************************)
\* No WithSession option was among the options of the invocation.
NoSessionInjected(c) ==
    \A i \in DOMAIN c.options : c.options[i].option # "WithSession"

\* The session the returned adapter holds is an object that discordgo.New
\* allocated during the invocation, not one the caller had.
HoldsNewSession(c) ==
    /\ c.ret.created = 1
    /\ c.ret.adapter[1].session # Nil
    /\ c.ret.adapter[1].session[1].ptr # Nil
    /\ c.ret.adapter[1].session[1].ptr[1] \notin InjectedSessions

C16_InjectedSessionUsed ==
    \A i \in DOMAIN lastNew :
        LET c == lastNew[i]
            given == c.options[Len(c.options)].session
        IN  ~NoSessionInjected(c) =>
                /\ c.ret.err = Nil
                /\ c.ret.adapter # Nil
                /\ c.ret.created = 0
                /\ c.ret.adapter[1].session # Nil
                /\ c.ret.adapter[1].session[1].ptr = given
                /\ \A j \in DOMAIN given :
                       /\ given[j] \in InjectedSessions
                       /\ c.ret.adapter[1].session[1].ptr[j].Intents
                              = given[j].Intents

C16_Witness ==
    /\ lastNew # Nil
    /\ Len(lastNew[1].options) = 2
    /\ lastNew[1].options[1].session # Nil
    /\ lastNew[1].options[2].session # Nil
    /\ lastNew[1].options[1].session # lastNew[1].options[2].session
    /\ lastNew[1].config.Token # <<>>
    /\ lastNew[1].config.Intents # lastNew[1].options[2].session[1].Intents
    /\ lastNew[1].ret.adapter # Nil
    /\ lastNew[1].ret.adapter[1].session[1].ptr = lastNew[1].options[2].session

\* Bit k of the bitmask n is set.
HasBit(n, k) == (n \div (2 ^ k)) % 2 = 1

\* C20: every Config returned by NewConfig has an empty token, help trigger
\* ".help", abort trigger ".abort" and intents equal to exactly guild
\* messages (bit 9), direct messages (bit 12) and message content (bit 15);
\* NewAdapter called with an unmodified NewConfig and no injected session
\* returns ErrEmptyToken and no adapter.
C20_NewConfigDefaults ==
    /\ \A i \in DOMAIN conf :
           ~confEdited =>
               /\ conf[i].Token = <<>>
               /\ conf[i].HelpCommand = <<".", "h", "e", "l", "p">>
               /\ conf[i].AbortCommand = <<".", "a", "b", "o", "r", "t">>
               /\ \A k \in 0..30 :
                      HasBit(conf[i].Intents, k) <=> k \in {9, 12, 15}
    /\ \A i \in DOMAIN lastNew :
           (lastNew[i].unmodified /\ NoSessionInjected(lastNew[i])) =>
               /\ lastNew[i].ret.err = Some(ErrEmptyToken)
               /\ lastNew[i].ret.adapter = Nil

C20_Witness ==
    /\ conf # Nil
    /\ ~confEdited
    /\ lastNew # Nil
    /\ lastNew[1].unmodified
    /\ lastNew[1].config = conf[1]
    /\ NoSessionInjected(lastNew[1])
    /\ lastNew[1].ret.err # Nil

(***************************************************************************)
(* Claims about NewResponse.                                               *)
(***************************************************************************)
\* C17: NewResponse fails on every input whose runtime type is not this
\* adapter's *Input, a help or abort sentinel wrapping one included: it
\* returns an error and no response and runs none of the options; on every
\* input of this adapter's *Input type it succeeds.
C17_ForeignInputRejected ==
    \A i \in DOMAIN lastResp :
        LET c == lastResp[i]
        IN  IF c.input # Nil /\ c.input[1].type = "*discord.Input"
            THEN /\ c.ret.err = Nil
                 /\ c.ret.resp # Nil
            ELSE /\ c.ret.err # Nil
                 /\ c.ret.resp = Nil
                 /\ c.ret.applied = 0

C17_Witness ==
    /\ lastResp # Nil
    /\ lastResp[1].input # Nil
    /\ lastResp[1].input[1].type = "*sarah.HelpInput"
    /\ lastResp[1].input[1].input.Event = SampleEvent
    /\ lastResp[1].options # <<>>
    /\ lastResp[1].ret.err # Nil
    /\ lastResp[1].ret.resp = Nil

\* The continuation context that the last option of the sequence builds.
ContextOfLast(options) ==
    IF options = <<>>
    THEN Nil
    ELSE LET o == options[Len(options)]
         IN  IF o.option = "RespWithNext"
             THEN Some([Next |-> o.fnc, Serializable |-> Nil])
             ELSE Some([Next |-> Nil, Serializable |-> o.arg])

\* C18: on success NewResponse returns a response whose content is the given
\* message unchanged and whose continuation context is that of the last
\* option only: absent with no options, only the callback after
\* RespWithNext, only the serializable argument after
\* RespWithNextSerializable, the earlier option's field unset.
C18_LastOptionSetsContext ==
    \A i \in DOMAIN lastResp :
        LET c == lastResp[i]
        IN  c.ret.err = Nil =>
                /\ c.ret.resp # Nil
                /\ c.ret.resp[1].Content.type = "string"
                /\ c.ret.resp[1].Content.text = c.message
                /\ c.ret.resp[1].UserContext = ContextOfLast(c.options)

C18_Witness ==
    /\ lastResp # Nil
    /\ lastResp[1].ret.err = Nil
    /\ Len(lastResp[1].options) = 2
    /\ lastResp[1].options[1].option = "RespWithNext"
    /\ lastResp[1].options[1].fnc # Nil
    /\ lastResp[1].options[2].option = "RespWithNextSerializable"
    /\ lastResp[1].options[2].arg # Nil
    /\ lastResp[1].message # Trimmed(lastResp[1].message)
    /\ lastResp[1].ret.resp[1].UserContext # Nil
    /\ lastResp[1].ret.resp[1].UserContext[1].Next = Nil
    /\ lastResp[1].ret.resp[1].UserContext[1].Serializable # Nil

(***************************************************************************)
(* Claims about MessageToInput.                                            *)
(***************************************************************************)
\* C19: MessageToInput returns ErrNoAuthor and no Input exactly when the
\* event has no author; otherwise it returns an Input with sender key
\* "<channelID>_<authorID>", text equal to the raw content, timestamp equal
\* to the event's, reply-to equal to the ChannelID of the event's channel,
\* and the very event as Event.
C19_MessageToInput ==
    \A i \in DOMAIN lastInput :
        LET m == lastInput[i].m
            ret == lastInput[i].ret
        IN  /\ (m.Author = Nil) <=> (ret.err = Some(ErrNoAuthor))
            /\ (m.Author = Nil) <=> (ret.input = Nil)
            /\ (m.Author = Nil) <=> (ret.err # Nil)
            /\ \A j \in DOMAIN ret.input :
                   LET v == AsInput(ret.input[j])
                   IN  /\ SenderKey(v)
                              = m.ChannelID \o <<"_">> \o m.Author[1].ID
                       /\ Message(v) = m.Content
                       /\ SentAt(v) = m.Timestamp
                       /\ ReplyTo(v).type = "ChannelID"
                       /\ ReplyTo(v).id = m.ChannelID
                       /\ ret.input[j].Event = m

C19_Witness ==
    /\ lastInput # Nil
    /\ lastInput[1].m.Author # Nil
    /\ lastInput[1].m.Content # Trimmed(lastInput[1].m.Content)
    /\ lastInput[1].m.Timestamp = 2
    /\ lastInput[1].ret.input # Nil
    /\ lastInput[1].ret.input[1].text = lastInput[1].m.Content

(***************************************************************************)
(* Further properties of Run.                                              *)
(***************************************************************************)
\* Run invocation r has returned.
ReturnedFrom(r) == r < run \/ (r = run /\ pc = "returned")

\* C21: in every Run invocation in which Open succeeded, notifyErr is never
\* called, whether Close returns nil or an error, and once Close has
\* returned Run has returned.
C21_CloseFailureNotEscalated ==
    \A r \in 1..run :
        OpenSucceededIn(r) =>
            /\ NotifiedIn(r) = {}
            /\ CallsOf("Close", "return", r) # {} => ReturnedFrom(r)

\* Close returned an error in the current Run invocation, which has returned
\* without a call of notifyErr.
C21_Witness ==
    /\ run >= 1
    /\ pc = "returned"
    /\ \E i \in CallsOf("Close", "return", run) : calls[i].err # Nil
    /\ NotifiedIn(run) = {}

\* C22: in every Run invocation the handler is registered with the session
\* before Open is called, exactly one handler is registered per invocation,
\* and it is registered also when Open fails.
C22_HandlerRegisteredBeforeOpen ==
    \A r \in 1..run :
        LET registered == {i \in DOMAIN handlers : handlers[i] = r}
        IN  /\ Cardinality(registered) <= 1
            /\ Cardinality(CallsOf("AddHandler", "call", r))
                   = Cardinality(registered)
            /\ \A j \in CallsOf("Open", "call", r) :
                   /\ Cardinality(registered) = 1
                   /\ \E i \in CallsOf("AddHandler", "call", r) : i < j
            /\ OpenFailedIn(r) => Cardinality(registered) = 1
            /\ ReturnedFrom(r) => Cardinality(registered) = 1

\* Open failed in the current Run invocation, whose handler is registered.
C22_Witness ==
    /\ run >= 1
    /\ OpenFailedIn(run)
    /\ Cardinality({i \in DOMAIN handlers : handlers[i] = run}) = 1
    /\ \E i \in CallsOf("AddHandler", "call", run) :
           \E j \in CallsOf("Open", "call", run) : i < j

\* C23: once Open has succeeded and the context is canceled, Run returns,
\* given that the call of Close returns; and Run leaves the call of Close
\* only when Close returns, so that it does not return as long as Close
\* does not.
C23_ReturnsOnceCloseReturns ==
    /\ (pc = "waiting" /\ ctxDone) ~> (pc = "returned")
    /\ [][pc = "closing" =>
              \/ pc' = "closing"
              \/ /\ pc' = "returned"
                 /\ Len(calls') = Len(calls) + 1
                 /\ calls'[Len(calls')].op = "Close"
                 /\ calls'[Len(calls')].ev = "return"
                 /\ calls'[Len(calls')].run = run]_vars

\* The first Run invocation went through all its session calls with a
\* canceled context and returned when Close did.
C23_Witness ==
    /\ run = 1
    /\ ctxDone
    /\ pc = "returned"
    /\ Len(calls) = 5
    /\ calls[3].op = "Open" /\ calls[3].ev = "return" /\ calls[3].err = Nil
    /\ calls[4].op = "Close" /\ calls[4].ev = "call"
    /\ calls[5].op = "Close" /\ calls[5].ev = "return"

(***************************************************************************)
(* Properties of concurrent handler invocations.                           *)
(***************************************************************************)
\* The entries of the queue that invocation t enqueued.
EnqueuedBy(t) == {i \in DOMAIN queue : queue[i].t = t}

\* C24: for handler invocations interleaved in any order, every finished
\* invocation whose event has an author and is not the bot's own has
\* enqueued exactly once, every other one not at all; each enqueued value is
\* the one the handler produces for that event alone; and no step of an
\* invocation changes the adapter's configuration or session.
C24_HandlerReentrant ==
    /\ [](\A t \in DOMAIN threads :
              LET inv == threads[t]
                  alone == HandleCalls(config, inv.s, inv.m, 0, Nil)
              IN  /\ Cardinality(EnqueuedBy(t)) <= 1
                  /\ ~Processed(inv) => EnqueuedBy(t) = {}
                  /\ (inv.at = "done" /\ Processed(inv)) =>
                         Cardinality(EnqueuedBy(t)) = 1
                  /\ \A i \in EnqueuedBy(t) :
                         /\ Len(alone) = 1
                         /\ queue[i].arg = alone[1].arg
                         /\ CarriesInputOf(queue[i].arg, inv.m))
    /\ [][config' = config /\ session' = session]_vars

\* Two invocations on different events have both enqueued, the one that
\* started later first.
C24_Witness ==
    /\ Len(threads) >= 2
    /\ threads[1].at = "done"
    /\ threads[2].at = "done"
    /\ threads[1].m # threads[2].m
    /\ Len(queue) >= 2
    /\ queue[1].t = 2
    /\ queue[2].t = 1
    /\ queue[1].arg.type # queue[2].arg.type

\* C25: two events with the same channel ID and the same author ID yield
\* Inputs with the same sender key, whatever their contents and timestamps
\* and in whichever order they are translated.
C25_SenderKeyStable ==
    \A i, j \in DOMAIN lastInput :
        LET a == lastInput[i]
            b == lastInput[j]
        IN  ( /\ a.m.Author # Nil
              /\ b.m.Author # Nil
              /\ a.m.ChannelID = b.m.ChannelID
              /\ a.m.Author[1].ID = b.m.Author[1].ID ) =>
                /\ a.ret.input # Nil
                /\ b.ret.input # Nil
                /\ SenderKey(AsInput(a.ret.input[1]))
                       = SenderKey(AsInput(b.ret.input[1]))

\* Two events of one author in one channel, with different contents and
\* timestamps, were translated one after the other.
C25_Witness ==
    /\ Len(lastInput) = 2
    /\ lastInput[1].m.Author # Nil
    /\ lastInput[1].m.Author = lastInput[2].m.Author
    /\ lastInput[1].m.ChannelID = lastInput[2].m.ChannelID
    /\ lastInput[1].m.Content # lastInput[2].m.Content
    /\ lastInput[1].m.Timestamp > lastInput[2].m.Timestamp
    /\ lastInput[1].ret.input # Nil
    /\ lastInput[2].ret.input # Nil
    /\ lastInput[1].ret.input[1].senderKey = lastInput[2].ret.input[1].senderKey

(***************************************************************************)
(* Further properties of SendMessage.                                      *)
(***************************************************************************)
\* The content of output o is of a type SendMessage sends.
Sendable(o) ==
    o.Content.type \in {"string", "*discordgo.MessageSend",
                        "*sarah.CommandHelps"}

\* C26 as stated: SendMessage to an empty channel ID calls no send
\* operation of the session, and a non-empty channel ID is passed to the
\* session unchanged.
C26_EmptyChannelRejected ==
    \A i \in DOMAIN lastSend :
        LET o == lastSend[i].output
            cs == lastSend[i].calls
        IN  o.Destination.type = "ChannelID" =>
                /\ o.Destination.id = <<>> => cs = <<>>
                /\ (o.Destination.id # <<>> /\ Sendable(o)) =>
                       /\ Len(cs) = 1
                       /\ cs[1].channelID = o.Destination.id

\* C26, amended: SendMessage validates no channel ID, not even for
\* non-emptiness: with content of a type it sends, every channel ID, the
\* empty one included, is passed unchanged to the one send operation called.
C26_ChannelIDNotValidated ==
    \A i \in DOMAIN lastSend :
        LET o == lastSend[i].output
            cs == lastSend[i].calls
        IN  (o.Destination.type = "ChannelID" /\ Sendable(o)) =>
                /\ Len(cs) = 1
                /\ cs[1].channelID = o.Destination.id

\* A text was sent to the empty channel ID.
C26_Witness ==
    /\ lastSend # Nil
    /\ lastSend[1].output.Destination.type = "ChannelID"
    /\ lastSend[1].output.Destination.id = <<>>
    /\ Len(lastSend[1].calls) = 1
    /\ lastSend[1].calls[1].channelID = <<>>

\* C27: Close is called only after Open has returned nil in the same Run
\* invocation and only with the context canceled: never in an invocation
\* whose Open failed, never before Open returned, and at most once per
\* invocation.
C27_CloseOnlyAfterOpenAndCancel ==
    /\ [](\A r \in 1..run :
              /\ Cardinality(CallsOf("Close", "call", r)) <= 1
              /\ \A j \in CallsOf("Close", "call", r) :
                     /\ ~OpenFailedIn(r)
                     /\ \E i \in CallsOf("Open", "return", r) :
                            i < j /\ calls[i].err = Nil)
    /\ [][( /\ Len(calls') = Len(calls) + 1
            /\ calls'[Len(calls')].op = "Close"
            /\ calls'[Len(calls')].ev = "call" ) => ctxDone]_vars

\* Close has been called and has not returned yet: Open returned nil
\* before and the context is canceled.
C27_Witness ==
    /\ run >= 1
    /\ pc = "closing"
    /\ ctxDone
    /\ OpenSucceededIn(run)
    /\ Cardinality(CallsOf("Close", "call", run)) = 1
    /\ CallsOf("Close", "return", run) = {}

(***************************************************************************)
(* Further properties of construction.                                     *)
(***************************************************************************)
\* C28: whenever NewAdapter returns without error, the adapter it returns
\* holds a session that is not nil, neither as an interface value nor as
\* the pointer inside it, for every token and every sequence of options,
\* WithSession with a nil session and an empty token included.
C28_SessionUsable ==
    \A i \in DOMAIN lastNew :
        lastNew[i].ret.err = Nil =>
            /\ lastNew[i].ret.adapter # Nil
            /\ lastNew[i].ret.adapter[1].session # Nil
            /\ lastNew[i].ret.adapter[1].session[1].ptr # Nil

\* C29: the adapter never unregisters a handler: the session holds one
\* handler for every Run invocation that has registered one, in the order
\* of the invocations, and loses none; an event the session delivers, also
\* after Run has returned, goes to every handler, so that an event with an
\* author that is not the bot's own is enqueued once per registered handler,
\* which is k times after k Run invocations.
C29_HandlersNeverUnregistered ==
    /\ [](/\ Len(handlers) = IF pc = "start" THEN run - 1 ELSE run
          /\ \A i \in DOMAIN handlers : handlers[i] = i)
    /\ [][/\ Len(handlers') >= Len(handlers)
          /\ SubSeq(handlers', 1, Len(handlers)) = handlers]_vars
    /\ [][events' = events + 1 =>
              /\ last'[1].cbs = handlers
              /\ Processed(last'[1]) =>
                     /\ Len(last'[1].calls) = Len(handlers)
                     /\ \A i \in DOMAIN handlers :
                            /\ last'[1].calls[i].cb = handlers[i]
                            /\ CarriesInputOf(last'[1].calls[i].arg,
                                              last'[1].m)
              /\ (pc = "returned" /\ Processed(last'[1])) =>
                     Len(last'[1].calls) = run]_vars

\* After two Run invocations, the second of which has returned, one event
\* was enqueued twice, once through the handler of each invocation.
C29_Witness ==
    /\ run = 2
    /\ pc = "returned"
    /\ Len(handlers) = 2
    /\ last # Nil
    /\ Processed(last[1])
    /\ last[1].cbs = <<1, 2>>
    /\ Len(last[1].calls) = 2
    /\ last[1].calls[1].cb = 1
    /\ last[1].calls[2].cb = 2

\* C30: a Run invocation whose context is canceled from the start still
\* registers the handler and calls Open; when Open returns nil its next
\* step is the call of Close, after which it returns, and when Open fails
\* it calls notifyErr; no invocation returns or calls Close without having
\* called Open.
C30_CanceledBeforeOpen ==
    /\ (pc = "start" /\ ctxDone) ~> (pc = "opening")
    /\ (pc = "waiting" /\ ctxDone) ~> (pc = "closing")
    /\ [](\A r \in 1..run :
              /\ ReturnedFrom(r) =>
                     /\ Cardinality(CallsOf("AddHandler", "call", r)) = 1
                     /\ Cardinality(CallsOf("Open", "call", r)) = 1
              /\ \A j \in CallsOf("Close", "call", r) :
                     \E i \in CallsOf("Open", "call", r) : i < j
              /\ (ReturnedFrom(r) /\ OpenFailedIn(r)) =>
                     Cardinality(NotifiedIn(r)) = 1
              /\ (ReturnedFrom(r) /\ OpenSucceededIn(r)) =>
                     Cardinality(CallsOf("Close", "return", r)) = 1)
    /\ [][(ctxDone /\ pc' # pc) =>
              /\ pc = "start" => pc' = "registered"
              /\ pc = "registered" => pc' = "opening"
              /\ pc = "opening" =>
                     \/ pc' = "waiting"
                     \/ pc' = "returned" /\ Len(notified') = Len(notified) + 1
              /\ pc = "waiting" => pc' = "closing"
              /\ pc = "closing" => pc' = "returned"]_vars

\* The context was canceled before Open was attempted, and Run has
\* registered its handler.
C30_Witness ==
    /\ run = 1
    /\ ctxDone
    /\ pc = "registered"
    /\ handlers = <<1>>
    /\ Len(calls) = 1
    /\ calls[1].op = "AddHandler"

====
